---------------------------- MODULE Spec2Model ----------------------------
(***************************************************************************)
(* A model of eval.h: eval(str, vars, fns) strips the spaces, rewrites     *)
(* adjacent signs, tokenizes, reads the tokens into a postfix queue with   *)
(* the shunting-yard algorithm (resolving variables and invoking functions *)
(* while reading) and evaluates the queue on a value stack.                *)
(*                                                                         *)
(* A std::string is a sequence of one-character strings.  A Number (a      *)
(* double) is an exact rational <<"rat", n, d>> in lowest terms, one of    *)
(* <<"inf", sign, 1>> and <<"nan", 0, 1>>, a rational <<"big", n, d>>      *)
(* beyond MaxMag, or, for a result the model does not compute (an          *)
(* irrational root, arithmetic on one of the former), the unevaluated      *)
(* application <<"app", f, args>>.                                         *)
(***************************************************************************)
EXTENDS Integers, Sequences, FiniteSets, TLC

(***************************************************************************)
(* Bounds of the model.                                                    *)
(***************************************************************************)
MaxLen == 5

MaxOps == 2

MaxArgs == 2

MaxMag == 30000

-----------------------------------------------------------------------------
(***************************************************************************)
(* Characters and strings.                                                 *)
(***************************************************************************)
Digits == <<"0", "1", "2", "3", "4", "5", "6", "7", "8", "9">>

DigitSet == {Digits[i] : i \in 1..10}

LowerCase == {"a", "b", "c", "d", "e", "f", "g", "h", "i", "j", "k", "l", "m",
              "n", "o", "p", "q", "r", "s", "t", "u", "v", "w", "x", "y", "z"}

UpperCase == {"A", "B", "C", "D", "E", "F", "G", "H", "I", "J", "K", "L", "M",
              "N", "O", "P", "Q", "R", "S", "T", "U", "V", "W", "X", "Y", "Z"}

isdigit(c) == c \in DigitSet

isalpha(c) == c \in LowerCase \cup UpperCase

LowerSeq == <<"a", "b", "c", "d", "e", "f", "g", "h", "i", "j", "k", "l", "m",
              "n", "o", "p", "q", "r", "s", "t", "u", "v", "w", "x", "y", "z">>

UpperSeq == <<"A", "B", "C", "D", "E", "F", "G", "H", "I", "J", "K", "L", "M",
              "N", "O", "P", "Q", "R", "S", "T", "U", "V", "W", "X", "Y", "Z">>

tolower(c) ==
  IF c \in UpperCase THEN LowerSeq[CHOOSE i \in 1..26 : UpperSeq[i] = c] ELSE c

DigitVal(c) == CHOOSE i \in 0..9 : Digits[i + 1] = c

RECURSIVE Flatten(_)
Flatten(ss) == IF ss = <<>> THEN <<>> ELSE Head(ss) \o Flatten(Tail(ss))

Drop(s, k) == SubSeq(s, k + 1, Len(s))

Take(s, k) == SubSeq(s, 1, k)

StartsWith(s, p) == Len(s) >= Len(p) /\ Take(s, Len(p)) = p

-----------------------------------------------------------------------------
(***************************************************************************)
(* Numbers.                                                                *)
(***************************************************************************)
Abs(i) == IF i < 0 THEN -i ELSE i

Sgn(i) == IF i < 0 THEN -1 ELSE IF i = 0 THEN 0 ELSE 1

RECURSIVE Gcd(_, _)
Gcd(a, b) == IF b = 0 THEN a ELSE Gcd(b, a % b)

IsRat(v) == v[1] = "rat"

App(f, args) == <<"app", f, args>>

Inf(sign) == <<"inf", sign, 1>>

NaN == <<"nan", 0, 1>>

\* The rational n/d (d # 0) in lowest terms; "big" when it leaves the range
\* in which the model computes, and then arithmetic on it stays unevaluated.
Rat(n, d) ==
  LET g == Gcd(Abs(n), Abs(d))
      nn == Sgn(d) * (n \div g)
      dd == Abs(d) \div g
  IN  IF Abs(nn) > MaxMag \/ dd > MaxMag
        THEN <<"big", nn, dd>>
        ELSE <<"rat", nn, dd>>

Zero == Rat(0, 1)

IntOf(i) == Rat(i, 1)

IsInt(v) == IsRat(v) /\ v[3] = 1

\* Truncation toward zero, as static_cast<int> and std::trunc do.
TruncInt(v) == Sgn(v[2]) * (Abs(v[2]) \div v[3])

FloorInt(v) == v[2] \div v[3]

CeilInt(v) == -((-v[2]) \div v[3])

\* std::round: halfway cases away from zero.
RoundInt(v) == Sgn(v[2]) * ((2 * Abs(v[2]) + v[3]) \div (2 * v[3]))


-----------------------------------------------------------------------------
(***************************************************************************)
(* The arithmetic of queue().  Signed zeros are not told apart, and        *)
(* arithmetic on an infinity, a NaN or an unevaluated value stays          *)
(* unevaluated: equal model values stand for equal doubles.                *)
(***************************************************************************)
Add(L, R) ==
  IF IsRat(L) /\ IsRat(R)
    THEN Rat(L[2] * R[3] + R[2] * L[3], L[3] * R[3])
    ELSE App(<<"+">>, <<L, R>>)

Sub(L, R) ==
  IF IsRat(L) /\ IsRat(R)
    THEN Rat(L[2] * R[3] - R[2] * L[3], L[3] * R[3])
    ELSE App(<<"-">>, <<L, R>>)

Mul(L, R) ==
  IF IsRat(L) /\ IsRat(R)
    THEN Rat(L[2] * R[2], L[3] * R[3])
    ELSE App(<<"*">>, <<L, R>>)

\* IEEE division: x/0 is an infinity with the sign of x, 0/0 is NaN.
Div(L, R) ==
  IF IsRat(L) /\ IsRat(R)
    THEN IF R[2] # 0 THEN Rat(L[2] * R[3], L[3] * R[2])
         ELSE IF L[2] = 0 THEN NaN ELSE Inf(Sgn(L[2]))
    ELSE App(<<"/">>, <<L, R>>)

\* acc * L^k, given up as soon as it leaves the range of the model.
RECURSIVE PowNat(_, _, _)
PowNat(acc, L, k) ==
  IF k = 0 \/ ~IsRat(acc) THEN acc
  ELSE IF L[3] = 1 /\ Abs(L[2]) <= 1
    THEN (IF L[2] = -1 /\ k % 2 = 0 THEN acc ELSE Mul(acc, L))
  ELSE PowNat(Mul(acc, L), L, k - 1)

\* std::pow, exact for an integer exponent.
Pow(L, R) ==
  IF IsRat(L) /\ IsInt(R)
    THEN LET p == PowNat(IntOf(1), L, Abs(R[2]))
         IN  IF ~IsRat(p) THEN App(<<"^">>, <<L, R>>)
             ELSE IF R[2] >= 0 THEN p
             ELSE Div(IntOf(1), p)
    ELSE App(<<"^">>, <<L, R>>)

\* static_cast<int>(L) % static_cast<int>(R): the conversion of an infinity
\* or a NaN and the remainder by zero are undefined behaviour, <<"ub">>.
Mod(L, R) ==
  IF L[1] \in {"inf", "nan"} \/ R[1] \in {"inf", "nan"} THEN <<"ub", 0, 1>>
  ELSE IF IsRat(L) /\ IsRat(R)
    THEN IF TruncInt(R) = 0 THEN <<"ub", 0, 1>>
         ELSE IntOf(Sgn(TruncInt(L)) * (Abs(TruncInt(L)) % Abs(TruncInt(R))))
    ELSE App(<<"%">>, <<L, R>>)

-----------------------------------------------------------------------------
(***************************************************************************)
(* Type::toToken (std::to_string, "%f") and Type::toNumber (std::stod).    *)
(***************************************************************************)
RECURSIVE IntToChars(_)
IntToChars(i) ==
  IF i < 10 THEN <<Digits[i + 1]>>
  ELSE Append(IntToChars(i \div 10), Digits[(i % 10) + 1])

\* The digits of i, padded with zeros on the left to k places.
RECURSIVE Pad(_, _)
Pad(cs, k) == IF Len(cs) >= k THEN cs ELSE Pad(<<"0">> \o cs, k)

RECURSIVE Pow10(_)
Pow10(k) == IF k = 0 THEN 1 ELSE 10 * Pow10(k - 1)

\* <<q, r>> after k steps of long division of r/d: q the first k decimals.
RECURSIVE LongDiv(_, _, _, _)
LongDiv(q, r, d, k) ==
  IF k = 0 THEN <<q, r>>
  ELSE LongDiv(10 * q + ((10 * r) \div d), (10 * r) % d, d, k - 1)

Precision == 6

toToken(n) ==
  IF n[1] = "inf" THEN (IF n[2] < 0 THEN <<"-">> ELSE <<>>) \o <<"i", "n", "f">>
  ELSE IF n[1] = "nan" THEN <<"n", "a", "n">>
  ELSE IF n[1] \notin {"rat", "big"} THEN <<"#", n>>
  ELSE LET a   == Abs(n[2])
           ld  == LongDiv(0, a % n[3], n[3], Precision)
           up  == 2 * ld[2] > n[3] \/ (2 * ld[2] = n[3] /\ ld[1] % 2 = 1)
           fr  == IF up THEN ld[1] + 1 ELSE ld[1]
           ip  == (a \div n[3]) + (IF fr = Pow10(Precision) THEN 1 ELSE 0)
           fr2 == IF fr = Pow10(Precision) THEN 0 ELSE fr
       IN  (IF n[2] < 0 THEN <<"-">> ELSE <<>>)
             \o IntToChars(ip) \o <<".">> \o Pad(IntToChars(fr2), Precision)

RECURSIVE DigitRun(_)
DigitRun(s) ==
  IF s # <<>> /\ isdigit(Head(s)) THEN <<Head(s)>> \o DigitRun(Tail(s)) ELSE <<>>

RECURSIVE CharsToInt(_)
CharsToInt(cs) ==
  IF cs = <<>> THEN 0 ELSE 10 * CharsToInt(Take(cs, Len(cs) - 1)) + DigitVal(cs[Len(cs)])

RECURSIVE StripZeros(_)
StripZeros(cs) ==
  IF cs # <<>> /\ cs[Len(cs)] = "0" THEN StripZeros(Take(cs, Len(cs) - 1)) ELSE cs

RECURSIVE StripLeadingZeros(_)
StripLeadingZeros(cs) ==
  IF cs # <<>> /\ Head(cs) = "0" THEN StripLeadingZeros(Tail(cs)) ELSE cs

Lower(s) == [i \in 1..Len(s) |-> tolower(s[i])]

\* std::stod: the longest prefix that is a floating-point literal (a sign,
\* then "inf", "nan", or digits with at most one '.'); <<"throw">> when
\* there is none.  No token of the program holds an exponent or hex part.
toNumber(s) ==
  IF s # <<>> /\ s[1] = "#" THEN App(<<"s", "t", "o", "d">>, <<s[2]>>)
  ELSE
  LET neg  == s # <<>> /\ s[1] = "-"
      body == IF s # <<>> /\ s[1] \in {"+", "-"} THEN Tail(s) ELSE s
      ip   == DigitRun(body)
      rest == Drop(body, Len(ip))
      fp   == IF rest # <<>> /\ rest[1] = "." THEN DigitRun(Tail(rest)) ELSE <<>>
      fz   == StripZeros(fp)
      sg   == IF neg THEN -1 ELSE 1
  IN  IF StartsWith(Lower(body), <<"i", "n", "f">>) THEN Inf(sg)
      ELSE IF StartsWith(Lower(body), <<"n", "a", "n">>) THEN NaN
      ELSE IF ip = <<>> /\ fp = <<>> THEN <<"throw">>
      ELSE IF Len(StripLeadingZeros(ip)) + Len(fz) > 9 THEN App(<<"l", "i", "t">>, <<s>>)
      ELSE Rat(sg * (CharsToInt(ip) * Pow10(Len(fz)) + CharsToInt(fz)), Pow10(Len(fz)))


-----------------------------------------------------------------------------
(***************************************************************************)
(* namespace Type and namespace Op.                                        *)
(***************************************************************************)
isNumber(s) ==
  /\ s # <<>>
  /\ \/ s[1] = "#"
     \/ /\ s[1] # "#"
        /\ \/ \A i \in 1..Len(s) : isdigit(s[i])
           \/ toNumber(s) # <<"throw">>

isLetter(c) == isalpha(c)

containsLettersOnly(s) == s = <<>> \/ (s[1] # "#" /\ \A i \in 1..Len(s) : isalpha(s[i]))

isOperator(s) == s # <<>> /\ s \in {<<"+">>, <<"-">>, <<"*">>, <<"/">>, <<"^">>, <<"%">>}

isParenthesis(s) == s = <<"(">> \/ s = <<")">>

isFunctionSeperator(s) == s = <<",">>

getPriority(s) ==
  IF s = <<"*">> \/ s = <<"/">> \/ s = <<"%">> THEN 3
  ELSE IF s = <<"+">> \/ s = <<"-">> THEN 2
  ELSE IF s = <<"^">> THEN 4
  ELSE -1

isRHS(s) == s = <<"^">>

isLHS(s) == ~isRHS(s)

isUnary(s) == s = <<"-">> \/ s = <<"+">>

-----------------------------------------------------------------------------
(***************************************************************************)
(* replaceAll and rewriteExpression.                                       *)
(***************************************************************************)
\* The text of s from position pos on, with every occurrence of search found
\* by a left-to-right scan replaced by r; replaced text is not scanned again.
RECURSIVE replaceFrom(_, _, _)
replaceFrom(s, search, r) ==
  IF Len(s) < Len(search) THEN s
  ELSE IF StartsWith(s, search) THEN r \o replaceFrom(Drop(s, Len(search)), search, r)
  ELSE <<Head(s)>> \o replaceFrom(Tail(s), search, r)

\* Mutant of replaceAll: the scan is repeated until nothing is replaced.
RECURSIVE replaceAll_Fixpoint(_, _, _)
replaceAll_Fixpoint(s, search, r) ==
  LET t == replaceFrom(s, search, r)
  IN  IF t = s THEN s ELSE replaceAll_Fixpoint(t, search, r)

replaceAll(s, search, r) == replaceFrom(s, search, r)

\* Mutant of rewriteExpression: "--" rewritten to "-".
rewriteExpression_MinusMinus(exp) ==
  replaceAll(replaceAll(replaceAll(replaceAll(exp,
    <<"+", "-">>, <<"-">>), <<"-", "+">>, <<"-">>), <<"+", "+">>, <<"+">>),
    <<"-", "-">>, <<"-">>)

rewriteExpression(exp) ==
  LET e1 == replaceAll(exp, <<"+", "-">>, <<"-">>)
      e2 == replaceAll(e1, <<"-", "+">>, <<"-">>)
      e3 == replaceAll(e2, <<"+", "+">>, <<"+">>)
      e4 == replaceAll(e3, <<"-", "-">>, <<"+">>)
  IN  e4

-----------------------------------------------------------------------------
(***************************************************************************)
(* tokenize.  The state of the scan is the record                          *)
(* [toks, wip, inContext, hasDecimal].                                     *)
(***************************************************************************)
TokInit == [toks |-> <<>>, wip |-> <<>>, inContext |-> FALSE, hasDecimal |-> FALSE]

FINISH_PREV(t) ==
  [t EXCEPT !.toks = IF t.wip # <<>> THEN Append(@, t.wip) ELSE @,
            !.wip = <<>>,
            !.hasDecimal = FALSE]

SINGLE_CHAR_IMPL(t, c) ==
  LET f == FINISH_PREV(t) IN [f EXCEPT !.toks = Append(@, <<c>>)]

\* Mutant of MULTI_CHAR_IMPL: a character is never added to a token under
\* construction.
MULTI_CHAR_IMPL_NoExtend(t, c, valid) ==
  IF t.wip = <<>> THEN [t EXCEPT !.wip = <<c>>]
  ELSE [FINISH_PREV(t) EXCEPT !.toks = Append(@, <<c>>)]

\* valid is the value of validates(), read only when wip is not empty.
MULTI_CHAR_IMPL(t, c, valid) ==
  IF t.wip = <<>> \/ valid
    THEN [t EXCEPT !.wip = Append(@, c)]
    ELSE LET f == FINISH_PREV(t) IN [f EXCEPT !.toks = Append(@, <<c>>)]

\* Mutant of UnaryZero: the flags are not reset at a "(".
UnaryZero_NoReset(t, c) ==
  IF isUnary(<<c>>) /\ t.wip = <<>> /\ ~t.inContext
    THEN [t EXCEPT !.toks = Append(@, <<"0">>), !.inContext = TRUE]
  ELSE t

\* The synthesized "0" of a sign that stands before any number of its context.
UnaryZero(t, c) ==
  IF c = "(" THEN [t EXCEPT !.inContext = FALSE]
  ELSE IF isUnary(<<c>>) /\ t.wip = <<>> /\ ~t.inContext
    THEN [t EXCEPT !.toks = Append(@, <<"0">>), !.inContext = TRUE]
  ELSE t

\* One iteration of the loop over the characters of exp.
tokenizeChar(t, c) ==
  IF c = " " THEN t
  ELSE IF isOperator(<<c>>) \/ isParenthesis(<<c>>) \/ isFunctionSeperator(<<c>>)
    THEN SINGLE_CHAR_IMPL(UnaryZero(t, c), c)
  ELSE IF isNumber(<<c>>)
    THEN [MULTI_CHAR_IMPL(t, c, isNumber(t.wip)) EXCEPT !.inContext = TRUE]
  ELSE IF c = "."
    THEN LET valid == isNumber(t.wip) /\ ~t.hasDecimal
             t1    == IF t.wip # <<>> /\ valid
                        THEN [t EXCEPT !.hasDecimal = TRUE] ELSE t
         IN  MULTI_CHAR_IMPL(t1, c, valid)
  ELSE IF isLetter(c)
    THEN MULTI_CHAR_IMPL(t, c, containsLettersOnly(t.wip))
  ELSE FINISH_PREV(t)

RECURSIVE tokenizeFrom(_, _)
tokenizeFrom(t, exp) ==
  IF exp = <<>> THEN FINISH_PREV(t).toks
  ELSE tokenizeFrom(tokenizeChar(t, Head(exp)), Tail(exp))

tokenize(exp) == tokenizeFrom(TokInit, exp)


-----------------------------------------------------------------------------
(***************************************************************************)
(* Errors: <<"error", kind, info>>, the kind named after the macro that    *)
(* builds the exception and info the text its message carries.             *)
(***************************************************************************)
Error(kind, info) == <<"error", kind, info>>

IsError(v) == v[1] = "error"

EVAL_UNREC_TOKEN(token) == Error("UNREC_TOKEN", token)

EVAL_UNDEFINED_VAR(token) == Error("UNDEFINED_VAR", token)

EVAL_MISMATCHED_PARENS == Error("MISMATCHED_PARENS", <<>>)

EVAL_INVALID_EXPR == Error("INVALID_EXPR", <<>>)

EVAL_UNREC_OP == Error("UNREC_OP", <<>>)

EVAL_INPUT_TOO_MANY_VALS == Error("INPUT_TOO_MANY_VALS", <<>>)

EVAL_INVALID_FN_NUMBER_ARGS(fn, expected, received) ==
  Error("INVALID_FN_NUMBER_ARGS", <<fn, expected, received>>)

EVAL_INVALID_ARG_TYPE(arg) == Error("INVALID_ARG_TYPE", arg)

-----------------------------------------------------------------------------
(***************************************************************************)
(* namespace Builtins.  A function returns <<result, reached>>: the Number *)
(* or the error it throws, and the arguments its math primitive was called *)
(* with (<<>> when the primitive was not reached).                         *)
(***************************************************************************)
\* atan(1.0) * 4.0, to eight decimals.
pi == <<"big", 314159265, 100000000>>

UnaryBuiltins ==
  {<<"a", "b", "s">>, <<"s", "q", "r", "t">>, <<"c", "b", "r", "t">>,
   <<"s", "i", "n">>, <<"c", "o", "s">>, <<"t", "a", "n">>,
   <<"a", "s", "i", "n">>, <<"a", "c", "o", "s">>, <<"a", "t", "a", "n">>,
   <<"f", "l", "o", "o", "r">>, <<"c", "e", "i", "l">>,
   <<"t", "r", "u", "n", "c">>, <<"r", "o", "u", "n", "d">>}

HypotName == <<"h", "y", "p", "o", "t">>

BuiltinFns == UnaryBuiltins \cup {HypotName}

IsSquare(n) == \E k \in 0..200 : k * k = n

IsCube(n) == \E k \in 0..40 : k * k * k = n

Root2(n) == CHOOSE k \in 0..200 : k * k = n

Root3(n) == CHOOSE k \in 0..40 : k * k * k = n

\* std::abs, std::sqrt, ... on a Number; exact where the result is rational.
Primitive(name, x) ==
  IF ~IsRat(x) THEN App(name, <<x>>)
  ELSE CASE name = <<"a", "b", "s">> -> Rat(Abs(x[2]), x[3])
         [] name = <<"f", "l", "o", "o", "r">> -> IntOf(FloorInt(x))
         [] name = <<"c", "e", "i", "l">> -> IntOf(CeilInt(x))
         [] name = <<"t", "r", "u", "n", "c">> -> IntOf(TruncInt(x))
         [] name = <<"r", "o", "u", "n", "d">> -> IntOf(RoundInt(x))
         [] name = <<"s", "q", "r", "t">> ->
              IF x[2] < 0 THEN NaN
              ELSE IF IsSquare(x[2]) /\ IsSquare(x[3])
                THEN Rat(Root2(x[2]), Root2(x[3]))
              ELSE App(name, <<x>>)
         [] name = <<"c", "b", "r", "t">> ->
              IF IsCube(Abs(x[2])) /\ IsCube(x[3])
                THEN Rat(Sgn(x[2]) * Root3(Abs(x[2])), Root3(x[3]))
              ELSE App(name, <<x>>)
         [] name \in {<<"s", "i", "n">>, <<"t", "a", "n">>, <<"a", "s", "i", "n">>,
                      <<"a", "t", "a", "n">>} ->
              IF x[2] = 0 THEN Zero ELSE App(name, <<x>>)
         [] name = <<"c", "o", "s">> ->
              IF x[2] = 0 THEN IntOf(1) ELSE App(name, <<x>>)
         [] name = <<"a", "c", "o", "s">> ->
              IF x = IntOf(1) THEN Zero ELSE App(name, <<x>>)
         [] OTHER -> App(name, <<x>>)

\* std::hypot.
Primitive2(x, y) ==
  IF IsRat(x) /\ IsRat(y)
    THEN LET ss == Add(Mul(x, x), Mul(y, y))
         IN  IF IsRat(ss) /\ IsSquare(ss[2]) /\ IsSquare(ss[3])
               THEN Rat(Root2(ss[2]), Root2(ss[3]))
               ELSE App(HypotName, <<x, y>>)
    ELSE App(HypotName, <<x, y>>)

\* Mutant of EVAL_FN_IMPL_NUMBER: the argument's type is checked before the
\* count.
EVAL_FN_IMPL_NUMBER_TypeFirst(name, args) ==
  IF args # <<>> /\ ~isNumber(args[1]) THEN <<EVAL_INVALID_ARG_TYPE(args[1]), <<>>>>
  ELSE IF Len(args) # 1 THEN <<EVAL_INVALID_FN_NUMBER_ARGS(name, 1, Len(args)), <<>>>>
  ELSE <<Primitive(name, toNumber(args[1])), <<<<name, args>>>>>>

EVAL_FN_IMPL_NUMBER(name, args) ==
  IF args = <<>> THEN <<EVAL_INVALID_FN_NUMBER_ARGS(name, 1, 0), <<>>>>
  ELSE IF Len(args) > 1 THEN <<EVAL_INVALID_FN_NUMBER_ARGS(name, 1, Len(args)), <<>>>>
  ELSE IF ~isNumber(args[1]) THEN <<EVAL_INVALID_ARG_TYPE(args[1]), <<>>>>
  ELSE <<Primitive(name, toNumber(args[1])), <<<<name, args>>>>>>

EVAL_FN_IMPL_2NUMBERS(name, args) ==
  IF args = <<>> THEN <<EVAL_INVALID_FN_NUMBER_ARGS(name, 2, 0), <<>>>>
  ELSE IF Len(args) # 2 THEN <<EVAL_INVALID_FN_NUMBER_ARGS(name, 2, Len(args)), <<>>>>
  ELSE IF ~isNumber(args[1]) THEN <<EVAL_INVALID_ARG_TYPE(args[1]), <<>>>>
  ELSE IF ~isNumber(args[2]) THEN <<EVAL_INVALID_ARG_TYPE(args[2]), <<>>>>
  ELSE <<Primitive2(toNumber(args[1]), toNumber(args[2])), <<<<name, args>>>>>>

\* A callable of the function table: <<"builtin", name>>, or the callable
\* <<"const", val>> of the tests, which returns val whatever its arguments.
Call(fn, args) ==
  IF fn[1] = "const" THEN <<fn[2], <<>>>>
  ELSE IF fn[2] = HypotName THEN EVAL_FN_IMPL_2NUMBERS(fn[2], args)
  ELSE EVAL_FN_IMPL_NUMBER(fn[2], args)

\* Mutant of Override: an entry already in the table is kept (insert, not
\* operator[]).
Override_KeepExisting(f, g) ==
  [k \in DOMAIN f \cup DOMAIN g |-> IF k \in DOMAIN f THEN f[k] ELSE g[k]]

\* bindBuiltins: the builtins written over the entries of the same name.
Override(f, g) ==
  [k \in DOMAIN f \cup DOMAIN g |-> IF k \in DOMAIN g THEN g[k] ELSE f[k]]

bindVars(vars) == Override(vars, [k \in {<<"p", "i">>} |-> pi])

bindFns(fns) == Override(fns, [k \in BuiltinFns |-> <<"builtin", k>>])


-----------------------------------------------------------------------------
(***************************************************************************)
(* read.  The locals of read are the record                                *)
(* [q, opStack, fnToInvoke, expectingArg, fnArgs], with the top of opStack *)
(* and the back of q at the end of the sequence; thrown is the exception   *)
(* that ended it (<<>> while there is none).  calls and reached are        *)
(* histories: the invocations <<name, args>> made so far, and those that   *)
(* reached a math primitive.                                               *)
(***************************************************************************)
ReadInit ==
  [q |-> <<>>, opStack |-> <<>>, fnToInvoke |-> <<>>, expectingArg |-> FALSE,
   fnArgs |-> <<>>, thrown |-> <<>>, calls |-> <<>>, reached |-> <<>>]

Top(stack) == stack[Len(stack)]

Pop(stack) == Take(stack, Len(stack) - 1)

Throw(r, e) == [r EXCEPT !.thrown = e]

\* while (...) {EVAL_MOVE_TOP(opStack, q);} of an operator token o1.
RECURSIVE PopOperators(_, _)
PopOperators(r, o1) ==
  IF /\ r.opStack # <<>>
     /\ \/ isLHS(o1) /\ getPriority(o1) <= getPriority(Top(r.opStack))
        \/ isRHS(o1) /\ getPriority(o1) < getPriority(Top(r.opStack))
    THEN PopOperators([r EXCEPT !.q = Append(@, Top(r.opStack)),
                                !.opStack = Pop(@)], o1)
    ELSE r

\* Mutant of EVAL_MOVE_TOP_UNTIL_LEFT_PAREN: the "(" is moved as well.
RECURSIVE EVAL_MOVE_TOP_Through(_)
EVAL_MOVE_TOP_Through(r) ==
  IF r.opStack = <<>> THEN r
  ELSE LET m == [r EXCEPT !.q = Append(@, Top(r.opStack)), !.opStack = Pop(@)]
       IN  IF Top(r.opStack) = <<"(">> THEN [m EXCEPT !.opStack = Append(@, <<"(">>)]
           ELSE EVAL_MOVE_TOP_Through(m)

RECURSIVE EVAL_MOVE_TOP_UNTIL_LEFT_PAREN(_)
EVAL_MOVE_TOP_UNTIL_LEFT_PAREN(r) ==
  IF r.opStack # <<>> /\ Top(r.opStack) # <<"(">>
    THEN EVAL_MOVE_TOP_UNTIL_LEFT_PAREN([r EXCEPT !.q = Append(@, Top(r.opStack)),
                                                  !.opStack = Pop(@)])
    ELSE r

\* fns[fnToInvoke](fnArgs) at a ")" and what follows it.
Invoke(r, fns) ==
  LET c == Call(fns[r.fnToInvoke], r.fnArgs)
      h == [r EXCEPT !.calls = Append(@, <<r.fnToInvoke, r.fnArgs>>),
                     !.reached = @ \o c[2]]
  IN  IF IsError(c[1]) THEN Throw(h, c[1])
      ELSE [h EXCEPT !.q = Append(@, toToken(c[1])),
                     !.fnArgs = <<>>,
                     !.fnToInvoke = <<>>,
                     !.expectingArg = FALSE]

CloseParen(r) ==
  LET m == EVAL_MOVE_TOP_UNTIL_LEFT_PAREN(r)
  IN  IF m.opStack # <<>> /\ Top(m.opStack) = <<"(">>
        THEN [m EXCEPT !.opStack = Pop(@)]
        ELSE Throw(m, EVAL_MISMATCHED_PARENS)

\* One iteration of the loop over the tokens.
readToken(r, token, vars, fns) ==
  IF r.expectingArg /\ token # <<")">>
    THEN [r EXCEPT !.fnArgs = Append(@, IF token \in DOMAIN vars
                                          THEN toToken(vars[token]) ELSE token),
                   !.expectingArg = FALSE]
  ELSE IF isNumber(token) THEN [r EXCEPT !.q = Append(@, token)]
  ELSE IF token \in DOMAIN vars THEN [r EXCEPT !.q = Append(@, toToken(vars[token]))]
  ELSE IF token \in DOMAIN fns THEN [r EXCEPT !.fnToInvoke = token]
  ELSE IF isFunctionSeperator(token) THEN [r EXCEPT !.expectingArg = TRUE]
  ELSE IF isOperator(token)
    THEN LET p == PopOperators(r, token) IN [p EXCEPT !.opStack = Append(@, token)]
  ELSE IF token = <<"(">>
    THEN IF r.fnToInvoke # <<>> THEN [r EXCEPT !.expectingArg = TRUE]
         ELSE [r EXCEPT !.opStack = Append(@, token)]
  ELSE IF token = <<")">>
    THEN IF r.fnToInvoke # <<>> THEN Invoke(r, fns) ELSE CloseParen(r)
  ELSE IF containsLettersOnly(token) THEN Throw(r, EVAL_UNDEFINED_VAR(token))
  ELSE Throw(r, EVAL_UNREC_TOKEN(token))

\* The loop after the last token: the operator stack moved to the queue.
RECURSIVE readDrain(_)
readDrain(r) ==
  IF r.opStack = <<>> THEN r
  ELSE IF isParenthesis(Top(r.opStack)) THEN Throw(r, EVAL_MISMATCHED_PARENS)
  ELSE readDrain([r EXCEPT !.q = Append(@, Top(r.opStack)), !.opStack = Pop(@)])

RECURSIVE readFrom(_, _, _, _)
readFrom(r, tokens, vars, fns) ==
  IF r.thrown # <<>> THEN r
  ELSE IF tokens = <<>> THEN readDrain(r)
  ELSE readFrom(readToken(r, Head(tokens), vars, fns), Tail(tokens), vars, fns)

read(str, vars, fns) == readFrom(ReadInit, tokenize(str), vars, fns)

-----------------------------------------------------------------------------
(***************************************************************************)
(* queue.  The value stack has its top at the end.  ub tells what the      *)
(* build makes of the undefined behaviour of one iteration.  ub.mod, for   *)
(* the % of two ints: "trap" (the process is killed, <<"crash">>) or       *)
(* "value" (an unspecified value).  ub.ref, for the read of token, a       *)
(* reference to the front of q that q.pop() has destroyed: "intact" (the   *)
(* characters are still there) or "freed" (they are not).                  *)
(***************************************************************************)
UBOutcomes == [mod : {"trap", "value"}, ref : {"intact", "freed"}]

\* The outcomes of a run in which no undefined behaviour shows.
Benign == [mod |-> "trap", ref |-> "intact"]

\* The longest text a std::string holds inside the string object; a longer
\* one is held in storage of its own, which the destructor hands back.
SsoCapacity == 15

\* What is read of a destroyed string whose storage was handed back: no
\* number and no operator.
Clobbered == <<"?">>

\* auto &token = q.front(); q.pop(); and then the reads of token.  A short
\* text lies in the deque's block, which outlives the pop; a long one lay in
\* freed storage.  (The text of an unevaluated value, <<"#", v>>, is taken
\* to be short.)
FrontAfterPop(token, ub) ==
  IF Len(token) > SsoCapacity /\ ub.ref = "freed" THEN Clobbered ELSE token

Crash == <<"crash", <<>>, <<>>>>

ApplyOperator(token, L, R) ==
  IF token = <<"*">> THEN Mul(L, R)
  ELSE IF token = <<"/">> THEN Div(L, R)
  ELSE IF token = <<"+">> THEN Add(L, R)
  ELSE IF token = <<"-">> THEN Sub(L, R)
  ELSE IF token = <<"^">> THEN Pow(L, R)
  ELSE IF token = <<"%">> THEN Mod(L, R)
  ELSE EVAL_UNREC_OP

\* One iteration of the loop over the queue: e is [valStack, thrown].
queueToken(e, front, ub) ==
  LET token == FrontAfterPop(front, ub)
  IN  IF isNumber(token) THEN [e EXCEPT !.valStack = Append(@, toNumber(token))]
      ELSE IF Len(e.valStack) < 2 THEN [e EXCEPT !.thrown = EVAL_INVALID_EXPR]
      ELSE LET R == Top(e.valStack)
               L == Top(Pop(e.valStack))
               v == ApplyOperator(token, L, R)
           IN  IF IsError(v) THEN [e EXCEPT !.valStack = Pop(Pop(@)), !.thrown = v]
               ELSE IF v[1] = "ub"
                 THEN IF ub.mod = "trap" THEN [e EXCEPT !.thrown = Crash]
                      ELSE [e EXCEPT !.valStack =
                                       Append(Pop(Pop(@)), App(<<"%">>, <<L, R>>))]
               ELSE [e EXCEPT !.valStack = Append(Pop(Pop(@)), v)]

queueEnd(e) ==
  IF Len(e.valStack) = 1 THEN Top(e.valStack) ELSE EVAL_INPUT_TOO_MANY_VALS

QueueInit == [valStack |-> <<>>, thrown |-> <<>>]

RECURSIVE queueFrom(_, _, _)
queueFrom(e, q, ub) ==
  IF e.thrown # <<>> THEN e.thrown
  ELSE IF q = <<>> THEN queueEnd(e)
  ELSE queueFrom(queueToken(e, Head(q), ub), Tail(q), ub)

queue(q, ub) == queueFrom(QueueInit, q, ub)

-----------------------------------------------------------------------------
(***************************************************************************)
(* eval.                                                                   *)
(***************************************************************************)
\* str.erase(std::remove(begin, end, ' '), end)
RECURSIVE removeSpaces(_)
removeSpaces(s) ==
  IF s = <<>> THEN <<>>
  ELSE IF Head(s) = " " THEN removeSpaces(Tail(s))
  ELSE <<Head(s)>> \o removeSpaces(Tail(s))

\* The outcome of eval(str, vars, fns): the Number returned or the exception.
eval(str, vars, fns, ub) ==
  LET s == removeSpaces(str)
  IN  IF s = <<>> THEN Zero
      ELSE LET r == read(rewriteExpression(s), bindVars(vars), bindFns(fns))
           IN  IF r.thrown # <<>> THEN r.thrown ELSE queue(r.q, ub)


-----------------------------------------------------------------------------
(***************************************************************************)
(* The state machine: one call eval(input, callerVars, callerFns), taken   *)
(* one loop iteration at a time.                                           *)
(***************************************************************************)
VARIABLES
  input,       \* the str argument of eval
  callerVars,  \* the caller's variable table
  callerFns,   \* the caller's function table
  pc,          \* "eval", "tokenize", "read", "queue", "done"
  vars,        \* eval's copy of the variable table
  fns,         \* eval's copy of the function table
  exp,         \* tokenize: the characters still to scan
  tk,          \* tokenize: [toks, wip, inContext, hasDecimal]
  tokens,      \* read: the tokens still to read
  rd,          \* read: its locals, and q once it has returned
  ev,          \* queue: [valStack, thrown]
  result       \* the Number eval returned or the exception it threw

vars_ == <<input, callerVars, callerFns, pc, vars, fns, exp, tk, tokens, rd, ev, result>>

None == <<"none", <<>>, <<>>>>

Strings(alphabet, n) == UNION {[1..k -> alphabet] : k \in 0..n}

\* The strings made of at most n of the given lexemes.
Inputs(lexemes, n) == {Flatten(w) : w \in Strings(lexemes, n)}

InitWith(inputs, varTables, fnTables) ==
  /\ input \in inputs
  /\ callerVars \in varTables
  /\ callerFns \in fnTables
  /\ pc = "eval"
  /\ vars = callerVars
  /\ fns = callerFns
  /\ exp = <<>>
  /\ tk = TokInit
  /\ tokens = <<>>
  /\ rd = ReadInit
  /\ ev = QueueInit
  /\ result = None

Return(v) == /\ result' = v
             /\ pc' = "done"

\* eval up to the call of read: the spaces removed, the builtins bound, the
\* expression rewritten.
evalEnter ==
  /\ pc = "eval"
  /\ LET s == removeSpaces(input)
     IN  IF s = <<>>
           THEN /\ Return(Zero)
                /\ UNCHANGED <<vars, fns, exp>>
           ELSE /\ vars' = bindVars(vars)
                /\ fns' = bindFns(fns)
                /\ exp' = rewriteExpression(s)
                /\ pc' = "tokenize"
                /\ UNCHANGED result
  /\ UNCHANGED <<input, callerVars, callerFns, tk, tokens, rd, ev>>

tokenizeStep ==
  /\ pc = "tokenize"
  /\ exp # <<>>
  /\ tk' = tokenizeChar(tk, Head(exp))
  /\ exp' = Tail(exp)
  /\ UNCHANGED <<input, callerVars, callerFns, pc, vars, fns, tokens, rd, ev, result>>

tokenizeReturn ==
  /\ pc = "tokenize"
  /\ exp = <<>>
  /\ tk' = FINISH_PREV(tk)
  /\ tokens' = tk'.toks
  /\ pc' = "read"
  /\ UNCHANGED <<input, callerVars, callerFns, vars, fns, exp, rd, ev, result>>

readStep ==
  /\ pc = "read"
  /\ tokens # <<>>
  /\ rd' = readToken(rd, Head(tokens), vars, fns)
  /\ tokens' = Tail(tokens)
  /\ IF rd'.thrown # <<>> THEN Return(rd'.thrown) ELSE UNCHANGED <<pc, result>>
  /\ UNCHANGED <<input, callerVars, callerFns, vars, fns, exp, tk, ev>>

readReturn ==
  /\ pc = "read"
  /\ tokens = <<>>
  /\ rd' = readDrain(rd)
  /\ IF rd'.thrown # <<>> THEN Return(rd'.thrown)
     ELSE pc' = "queue" /\ UNCHANGED result
  /\ UNCHANGED <<input, callerVars, callerFns, vars, fns, exp, tk, tokens, ev>>

queueStep ==
  /\ pc = "queue"
  /\ rd.q # <<>>
  /\ \E ub \in UBOutcomes : ev' = queueToken(ev, Head(rd.q), ub)
  /\ rd' = [rd EXCEPT !.q = Tail(@)]
  /\ IF ev'.thrown # <<>> THEN Return(ev'.thrown) ELSE UNCHANGED <<pc, result>>
  /\ UNCHANGED <<input, callerVars, callerFns, vars, fns, exp, tk, tokens>>

queueReturn ==
  /\ pc = "queue"
  /\ rd.q = <<>>
  /\ Return(queueEnd(ev))
  /\ UNCHANGED <<input, callerVars, callerFns, vars, fns, exp, tk, tokens, rd, ev>>

Next ==
  \/ evalEnter
  \/ tokenizeStep
  \/ tokenizeReturn
  \/ readStep
  \/ readReturn
  \/ queueStep
  \/ queueReturn

NoTable == [k \in {} |-> None]


-----------------------------------------------------------------------------
(***************************************************************************)
(* The inputs of the specifications.                                       *)
(***************************************************************************)
\* Well-formed infix expressions with k operators and signs in all: atoms
\* (a literal, or a parenthesised group), chains atom op atom op ..., and a
\* sign only at the front of the expression or of a group.
RECURSIVE Atoms(_, _, _, _), Chains(_, _, _, _), Groups(_, _, _, _)
Atoms(lits, ops, signs, k) ==
  IF k = 0 THEN lits
  ELSE {<<"(">> \o e \o <<")">> : e \in Chains(lits, ops, signs, k)}
         \cup {<<"(">> \o sg \o e \o <<")">> :
                  sg \in signs, e \in Groups(lits, ops, signs, k - 1)}

Chains(lits, ops, signs, k) ==
  IF k = 0 THEN {}
  ELSE UNION {{a \o op \o g : a \in Atoms(lits, ops, signs, i), op \in ops,
                              g \in Groups(lits, ops, signs, k - 1 - i)} :
              i \in 0..(k - 1)}

Groups(lits, ops, signs, k) ==
  Atoms(lits, ops, signs, k) \cup Chains(lits, ops, signs, k)

Exprs(lits, ops, signs, n) ==
  UNION {Groups(lits, ops, signs, k)
           \cup (IF k = 0 THEN {}
                 ELSE {sg \o e : sg \in signs, e \in Groups(lits, ops, signs, k - 1)}) :
         k \in 0..n}

BinaryOps == {<<"+">>, <<"-">>, <<"*">>, <<"/">>, <<"^">>, <<"%">>}

\* The number 2 written with SsoCapacity + 1 characters.
LongLiteral == [i \in 1..SsoCapacity |-> "0"] \o <<"2">>

\* Well-formed expressions with up to MaxOps binary operators: of the
\* literals 2 and 3, and of 3 and the long literal.
InitArith ==
  InitWith(Exprs({<<"2">>, <<"3">>}, BinaryOps, {}, MaxOps)
             \cup Exprs({<<"3">>, LongLiteral}, {<<"+">>, <<"*">>}, {}, MaxOps),
           {NoTable}, {NoTable})

SpecArith == InitArith /\ [][Next]_vars_

-----------------------------------------------------------------------------
(***************************************************************************)
(* The value of a well-formed expression under standard precedence, by     *)
(* precedence climbing: ^ above * / %, those above + -, ^ grouping to the  *)
(* right and the others to the left, each operator applied as L op R.      *)
(***************************************************************************)
RefPrec(c) == IF c = "^" THEN 3 ELSE IF c \in {"*", "/", "%"} THEN 2 ELSE 1

RefUndefined == <<"ub", 0, 1>>

RefApply(c, L, R) ==
  IF L = RefUndefined \/ R = RefUndefined THEN RefUndefined
  ELSE ApplyOperator(<<c>>, L, R)

RECURSIVE LiteralRun(_)
LiteralRun(s) ==
  IF s # <<>> /\ (isdigit(Head(s)) \/ Head(s) = ".")
    THEN <<Head(s)>> \o LiteralRun(Tail(s)) ELSE <<>>

\* <<value, rest>> of the longest expression at the front of s whose
\* operators bind at least as tightly as minPrec.
RECURSIVE RefExpr(_, _), RefLoop(_, _, _)
RefExpr(s, minPrec) ==
  IF Head(s) = "("
    THEN LET inner == RefExpr(Tail(s), 1)
         IN  RefLoop(inner[1], Tail(inner[2]), minPrec)
    ELSE LET lit == LiteralRun(s)
         IN  RefLoop(toNumber(lit), Drop(s, Len(lit)), minPrec)

RefLoop(lhs, s, minPrec) ==
  IF s # <<>> /\ isOperator(<<Head(s)>>) /\ RefPrec(Head(s)) >= minPrec
    THEN LET c   == Head(s)
             rhs == RefExpr(Tail(s), IF c = "^" THEN RefPrec(c) ELSE RefPrec(c) + 1)
         IN  RefLoop(RefApply(c, lhs, rhs[1]), rhs[2], minPrec)
    ELSE <<lhs, s>>

RefValue(s) == RefExpr(s, 1)[1]

IsNumberValue(v) == v[1] \in {"rat", "big", "inf", "nan", "app"}

\* The outcomes eval can have on s with empty tables.
Outcomes(s) == {eval(s, NoTable, NoTable, ub) : ub \in UBOutcomes}

\* s holds a literal of more than SsoCapacity characters.
HasLongLiteral(s) ==
  \E i \in 1..(Len(s) - SsoCapacity) :
    \A j \in i..(i + SsoCapacity) : isdigit(s[j]) \/ s[j] = "."

\* C1: eval of a well-formed expression of non-negative literals, the binary
\* operators and balanced parentheses returns its value under standard
\* precedence and associativity, each operator applied as L op R (wherever
\* that value is defined: no remainder by zero).
C1_StandardPrecedence ==
  (pc = "done" /\ RefValue(input) # RefUndefined) => result = RefValue(input)


-----------------------------------------------------------------------------
(***************************************************************************)
(* Variables.                                                              *)
(***************************************************************************)
VarName == <<"x">>

VarValue == IntOf(5)

VarLiteral == <<"5">>

\* Well-formed expressions in which x stands at the start, after an operator
\* or a sign, and alone inside parentheses.
InitVar ==
  InitWith(Exprs({VarName, <<"(">> \o VarName \o <<")">>, <<"3">>},
                 {<<"-">>, <<"*">>}, {<<"-">>}, MaxOps),
           {[k \in {VarName} |-> VarValue]}, {NoTable})

SpecVar == InitVar /\ [][Next]_vars_

\* Every occurrence of the one-letter name stands alone: no letter, digit or
\* '.' next to it, so that it is a token and its literal stays one.
StandsAlone(s, name) ==
  \A i \in 1..Len(s) :
    s[i] = name[1] =>
      /\ (i > 1 => ~(isalpha(s[i - 1]) \/ isdigit(s[i - 1]) \/ s[i - 1] = "."))
      /\ (i < Len(s) => ~(isalpha(s[i + 1]) \/ isdigit(s[i + 1]) \/ s[i + 1] = "."))

\* s with every character name[1] replaced by the text lit.
RECURSIVE Substitute(_, _, _)
Substitute(s, name, lit) ==
  IF s = <<>> THEN <<>>
  ELSE (IF Head(s) = name[1] THEN lit ELSE <<Head(s)>>)
         \o Substitute(Tail(s), name, lit)

\* C2: with x bound to 5, eval gives an expression the outcome it gives the
\* expression with every token x replaced by the literal 5.
C2_VariableLikeLiteral ==
  (pc = "done" /\ StandsAlone(input, VarName))
    => result = eval(Substitute(input, VarName, VarLiteral), NoTable, NoTable, Benign)


-----------------------------------------------------------------------------
(***************************************************************************)
(* Function calls: pre name ( a1 , ... , an ) post, with the user function *)
(* f of the tests (it returns 1 whatever it is given), the variable x and  *)
(* the unbound name y.                                                     *)
(***************************************************************************)
FnName == <<"f">>

FnResult == IntOf(1)

FnLiteral == <<"1">>

AbsName == <<"a", "b", "s">>

SqrtName == <<"s", "q", "r", "t">>

CallNames == {FnName, AbsName, SqrtName, HypotName}

UnboundName == <<"y">>

ArgTexts == {<<"3">>, <<"4">>, <<"-", "3">>, VarName, UnboundName}

CallPres == {<<>>, <<"2", "+">>, <<"2", "*">>}

CallPosts == {<<>>, <<"*", "2">>}

RECURSIVE Join(_)
Join(args) ==
  IF args = <<>> THEN <<>>
  ELSE IF Len(args) = 1 THEN args[1]
  ELSE args[1] \o <<",">> \o Join(Tail(args))

CallShapes ==
  [pre : CallPres, name : CallNames, args : Strings(ArgTexts, MaxArgs),
   post : CallPosts]

CallText(c) == c.pre \o c.name \o <<"(">> \o Join(c.args) \o <<")">> \o c.post

InitCall ==
  InitWith({CallText(c) : c \in CallShapes}, {[k \in {VarName} |-> VarValue]},
           {[k \in {FnName} |-> <<"const", FnResult>>]})

SpecCall == InitCall /\ [][Next]_vars_

\* The value an argument text stands for.
ArgValue(a) ==
  IF a = VarName THEN VarValue
  ELSE IF Head(a) = "-" THEN Sub(Zero, toNumber(Tail(a)))
  ELSE toNumber(a)

Arity(name) == IF name = HypotName THEN 2 ELSE 1

\* C3: when eval of pre name(a1,...,an) post is done, with every ai a literal
\* with optional sign or the bound variable (and n the number of arguments a
\* builtin takes), the callable was invoked exactly once, with the n values
\* a1..an in order; and the result of the user function (1) stands as one
\* operand: eval returns the value of pre 1 post.
C3_CallWithItsArguments ==
  \A c \in CallShapes :
    (/\ pc = "done"
     /\ input = CallText(c)
     /\ c.name \in BuiltinFns => Len(c.args) = Arity(c.name)
     /\ \A i \in 1..Len(c.args) : c.args[i] # UnboundName)
      => /\ Len(rd.calls) = 1
         /\ rd.calls[1][1] = c.name
         /\ Len(rd.calls[1][2]) = Len(c.args)
         /\ \A i \in 1..Len(c.args) :
              /\ isNumber(rd.calls[1][2][i])
              /\ toNumber(rd.calls[1][2][i]) = ArgValue(c.args[i])
         /\ c.name = FnName => result = RefValue(c.pre \o FnLiteral \o c.post)

\* C8: an invocation that reached a math primitive had exactly the required
\* number of arguments, every one number-shaped; and an invocation of a
\* builtin with another number of arguments ended eval with the arity error
\* of that name, the expected count and the received count, whatever the
\* arguments are.
C8_BuiltinArgumentsChecked ==
  /\ \A i \in 1..Len(rd.reached) :
       /\ Len(rd.reached[i][2]) = Arity(rd.reached[i][1])
       /\ \A j \in 1..Len(rd.reached[i][2]) : isNumber(rd.reached[i][2][j])
  /\ \A i \in 1..Len(rd.calls) :
       (/\ rd.calls[i][1] \in BuiltinFns
        /\ Len(rd.calls[i][2]) # Arity(rd.calls[i][1]))
         => /\ pc = "done"
            /\ rd.reached = <<>>
            /\ result = EVAL_INVALID_FN_NUMBER_ARGS(rd.calls[i][1],
                          Arity(rd.calls[i][1]), Len(rd.calls[i][2]))

\* sqrt(y,3): two arguments, the first not number-shaped; the count was
\* checked first.
C8_Witness ==
  /\ pc = "done"
  /\ input = SqrtName \o <<"(", "y", ",", "3", ")">>
  /\ rd.calls = <<<<SqrtName, <<<<"y">>, <<"3">>>>>>>>
  /\ result = EVAL_INVALID_FN_NUMBER_ARGS(SqrtName, 1, 2)


-----------------------------------------------------------------------------
(***************************************************************************)
(* Signs.                                                                  *)
(***************************************************************************)
SignChars == {"+", "-"}

\* Well-formed expressions with a sign at the front of the expression and of
\* parenthesised groups.
\* A sign before the long literal, at the front and in a group.
LongSignInputs ==
  {<<"-">> \o LongLiteral,
   <<"(", "-">> \o LongLiteral \o <<")", "*", "2">>,
   <<"2", "*", "(", "+">> \o LongLiteral \o <<")">>}

InitSign ==
  InitWith(Exprs({<<"2">>, <<"3">>}, {<<"-">>, <<"*">>, <<"^">>},
                 {<<"+">>, <<"-">>}, MaxOps)
             \cup LongSignInputs,
           {NoTable}, {NoTable})

SpecSign == InitSign /\ [][Next]_vars_

\* s with a 0 written in front of every sign that is its first character or
\* directly follows a "(" (prev is the character before s).
RECURSIVE ZeroSigns(_, _)
ZeroSigns(s, prev) ==
  IF s = <<>> THEN <<>>
  ELSE (IF Head(s) \in SignChars /\ prev \in {"", "("} THEN <<"0">> ELSE <<>>)
         \o <<Head(s)>> \o ZeroSigns(Tail(s), Head(s))

HasLeadingSign(s) ==
  \E i \in 1..Len(s) : s[i] \in SignChars /\ (i = 1 \/ s[i - 1] = "(")

\* C4: an expression with a + or - at its front or directly after a "(", at
\* any depth, has the outcome of the expression with 0 written in front of
\* each such sign: the value of that expression under standard precedence,
\* where no literal is longer than SsoCapacity.
C4_LeadingSignAsZeroMinus ==
  (pc = "done" /\ HasLeadingSign(input))
    => IF HasLongLiteral(input)
         THEN result \in Outcomes(ZeroSigns(input, ""))
         ELSE result = RefValue(ZeroSigns(input, ""))

\* -(3*2) has been evaluated to -6.
C4_Witness ==
  /\ pc = "done"
  /\ input = <<"-", "(", "3", "*", "2", ")">>
  /\ result = IntOf(-6)

SignPairs == {<<"+", "-">>, <<"-", "+">>, <<"-", "-">>, <<"+", "+">>}

\* A run of two signs with a space inside, between two operands, at the front
\* of the expression and at the front of a group.
SpacedPairInputs ==
  {w[1] \o <<p[1], " ", p[2]>> \o r \o w[2] :
     w \in {<<<<>>, <<>>>>, <<<<"2">>, <<>>>>, <<<<"3", "*", "(">>, <<")">>>>},
     p \in SignPairs,
     r \in {<<"3">>, <<"(", "3", "*", "2", ")">>}}

\* Expressions with runs of exactly two signs between two operands and at the
\* front of the expression and of groups.
InitRewrite ==
  InitWith(Exprs({<<"2">>, <<"3">>}, SignPairs \cup {<<"*">>}, SignPairs, MaxOps)
             \cup SpacedPairInputs
             \cup {w \o p \o LongLiteral : w \in {<<>>, <<"2">>}, p \in SignPairs},
           {NoTable}, {NoTable})

SpecRewrite == InitRewrite /\ [][Next]_vars_

WithoutSpaces(s) == SelectSeq(s, LAMBDA c : c # " ")

\* s with every two adjacent signs replaced by the sign of their product.
RECURSIVE CollapsePairs(_)
CollapsePairs(s) ==
  IF Len(s) < 2 THEN s
  ELSE IF s[1] \in SignChars /\ s[2] \in SignChars
    THEN <<IF s[1] = s[2] THEN "+" ELSE "-">> \o CollapsePairs(Tail(Tail(s)))
  ELSE <<Head(s)>> \o CollapsePairs(Tail(s))

HasSignPair(s) == \E i \in 1..(Len(s) - 1) : s[i] \in SignChars /\ s[i + 1] \in SignChars

\* C5: an expression with runs of exactly two signs (spaces between them
\* ignored), between two operands or at the front of the expression or of a
\* group, has the outcome of the expression with each run replaced by the
\* one sign of the product polarity: the value of that expression, where no
\* literal is longer than SsoCapacity.
C5_SignPairAsProduct ==
  (pc = "done" /\ HasSignPair(WithoutSpaces(input)))
    => IF HasLongLiteral(input)
         THEN result \in Outcomes(CollapsePairs(WithoutSpaces(input)))
         ELSE result = RefValue(ZeroSigns(CollapsePairs(WithoutSpaces(input)), ""))

\* 2- -3 has been evaluated to 5, and --3 to 3.
C5_Witness ==
  /\ pc = "done"
  /\ \/ input = <<"2", "-", " ", "-", "3">> /\ result = IntOf(5)
     \/ input = <<"-", "-", "3">> /\ result = IntOf(3)


-----------------------------------------------------------------------------
(***************************************************************************)
(* Malformed input: strings of the lexemes ( ) 2 f y , + with the user     *)
(* function f bound and the name y bound to nothing.                       *)
(***************************************************************************)
InitParse ==
  InitWith(Inputs({<<"(">>, <<")">>, <<"2">>, FnName, UnboundName, <<",">>, <<"+">>},
                  MaxLen),
           {NoTable}, {[k \in {FnName} |-> <<"const", FnResult>>]})

SpecParse == InitParse /\ [][Next]_vars_

\* The number of "(" still open after s, from depth open; -1 once a ")" had
\* no open "(" before it.
RECURSIVE ParenDepth(_, _)
ParenDepth(s, open) ==
  IF s = <<>> THEN open
  ELSE IF Head(s) = "(" THEN ParenDepth(Tail(s), open + 1)
  ELSE IF Head(s) = ")"
    THEN IF open = 0 THEN -1 ELSE ParenDepth(Tail(s), open - 1)
  ELSE ParenDepth(Tail(s), open)

Unbalanced(s) == ParenDepth(s, 0) # 0

\* C6: eval of an expression with unbalanced parentheses fails in read, with
\* the mismatched-parenthesis error or with the error read raised at an
\* earlier token; it returns no number.
C6_UnbalancedParensFail ==
  (pc = "done" /\ Unbalanced(input))
    => /\ rd.thrown # <<>>
       /\ result = rd.thrown

\* C7: whenever read comes to an all-letters token that is bound neither as
\* a variable nor as a function, wherever it stands, eval fails with the
\* undefined-variable error naming that token.
C7_UnboundNameFails ==
  [][(/\ pc = "read"
      /\ tokens # <<>>
      /\ containsLettersOnly(Head(tokens))
      /\ Head(tokens) \notin DOMAIN vars
      /\ Head(tokens) \notin DOMAIN fns)
       => result' = EVAL_UNDEFINED_VAR(Head(tokens))]_vars_

-----------------------------------------------------------------------------
(***************************************************************************)
(* Whitespace: strings of the lexemes 2 3 + space tab.                     *)
(***************************************************************************)
Whitespace == {" ", "\t", "\n"}

\* Two literals whose digits together are more than SsoCapacity.
LongPairInputs ==
  {[i \in 1..SsoCapacity |-> "0"] \o sp \o <<"2">> : sp \in {<<" ">>, <<" ", " ">>}}

InitWs ==
  InitWith(Inputs({<<"2">>, <<"3">>, <<"+">>, <<" ">>, <<"\t">>}, MaxLen)
             \cup LongPairInputs,
           {NoTable}, {NoTable})

SpecWs == InitWs /\ [][Next]_vars_

WithoutWhitespace(s) == SelectSeq(s, LAMBDA c : c \notin Whitespace)

\* C9: eval gives an input the outcome it gives the input with all its
\* whitespace removed.
C9_WhitespaceInsignificant ==
  pc = "done" => result \in Outcomes(WithoutWhitespace(input))

AllIn(s, chars) == \A i \in 1..Len(s) : s[i] \in chars

\* s is two runs of digits with whitespace of the set ws, and nothing else,
\* between them.
TwoLiterals(s, ws) ==
  \E i, j \in 1..Len(s) :
    /\ i < j
    /\ j < Len(s)
    /\ AllIn(SubSeq(s, 1, i), DigitSet)
    /\ AllIn(SubSeq(s, i + 1, j), ws)
    /\ AllIn(SubSeq(s, j + 1, Len(s)), DigitSet)

\* The number a run of digits writes.
RECURSIVE DecimalValue(_, _)
DecimalValue(s, acc) ==
  IF s = <<>> THEN Rat(acc, 1)
  ELSE DecimalValue(Tail(s), acc * 10 + DigitVal(Head(s)))

\* C10 as stated: two bare number literals separated only by whitespace make
\* eval fail with the too-many-values error.
C10_TwoLiteralsTooManyValues ==
  (pc = "done" /\ TwoLiterals(input, Whitespace))
    => result = EVAL_INPUT_TOO_MANY_VALS

\* C10 as amended: two runs of digits separated only by spaces have the
\* outcome of the one literal their digits write together, never the
\* too-many-values error: the number so written, where it is no longer than
\* SsoCapacity.
C10_TwoLiteralsJoinedBySpaces ==
  (pc = "done" /\ TwoLiterals(input, {" "}))
    => /\ result # EVAL_INPUT_TOO_MANY_VALS
       /\ IF HasLongLiteral(WithoutWhitespace(input))
            THEN result \in Outcomes(WithoutWhitespace(input))
            ELSE result = DecimalValue(WithoutWhitespace(input), 0)

\* "2 3" has been evaluated to 23.
C10_Witness ==
  /\ pc = "done"
  /\ input = <<"2", " ", "3">>
  /\ result = IntOf(23)

-----------------------------------------------------------------------------
(***************************************************************************)
(* Division and remainder by zero: well-formed expressions of the literals *)
(* 0, 2 and 3 with / and %.                                                *)
(***************************************************************************)
InitEdge ==
  InitWith(Exprs({<<"0">>, <<"2">>, <<"3">>}, {<<"/">>, <<"%">>}, {}, MaxOps),
           {NoTable}, {NoTable})

SpecEdge == InitEdge /\ [][Next]_vars_

\* C11: eval of a well-formed expression of numbers, operators and balanced
\* parentheses ends with a number: it raises nothing and does not crash,
\* also when the right operand of / or % is zero.
C11_ReturnsANumber ==
  pc = "done" => IsNumberValue(result)

\* C12: for the empty string and for a string of whitespace only, eval
\* neither tokenizes, reads nor evaluates a queue, and it returns 0.
C12_BlankIsZero ==
  AllIn(input, Whitespace)
    => /\ pc \in {"eval", "done"}
       /\ pc = "done" => result = Zero

-----------------------------------------------------------------------------
(***************************************************************************)
(* A sequence of calls of eval by one caller, whose tables may hold        *)
(* entries named like builtins: the variable pi and the function abs.      *)
(***************************************************************************)
PiName == <<"p", "i">>

CallerPi == IntOf(7)

CallerVarTables ==
  {NoTable, [k \in {PiName, VarName} |-> IF k = PiName THEN CallerPi ELSE VarValue]}

CallerFnTables ==
  {NoTable, [k \in {AbsName, FnName} |-> <<"const", FnResult>>]}

SeqInputs ==
  {<<>>, PiName, <<"2", "*">> \o PiName, AbsName \o <<"(", "3", ")">>,
   AbsName \o <<"(", "3", ")", "+", "2">>, <<"2", "+", "3">>,
   HypotName \o <<"(", "3", ",", "4", ")">>, <<"2", "%", "0">>}

InitSeq == InitWith(SeqInputs, CallerVarTables, CallerFnTables)

\* The caller calls eval once more, with the tables it holds: the parameters
\* vars and fns are copies of them.
evalAgain ==
  /\ pc = "done"
  /\ input' \in SeqInputs
  /\ pc' = "eval"
  /\ vars' = callerVars
  /\ fns' = callerFns
  /\ exp' = <<>>
  /\ tk' = TokInit
  /\ tokens' = <<>>
  /\ rd' = ReadInit
  /\ ev' = QueueInit
  /\ result' = None
  /\ UNCHANGED <<callerVars, callerFns>>

NextSeq ==
  \/ Next
  \/ evalAgain

SpecSeq == InitSeq /\ [][NextSeq]_vars_

\* The text std::to_string gives the builtin pi, as a number.
PiRead == toNumber(<<"3", ".", "1", "4", "1", "5", "9", "3">>)

\* During a call the builtin names are bound to the builtins and the other
\* names to the caller's entries; pi and abs(3) evaluate as the builtins.
BuiltinsWin ==
  /\ pc \in {"tokenize", "read", "queue"}
       => /\ vars[PiName] = pi
          /\ \A k \in BuiltinFns : fns[k] = <<"builtin", k>>
          /\ \A k \in DOMAIN callerVars \ {PiName} : vars[k] = callerVars[k]
          /\ \A k \in DOMAIN callerFns \ BuiltinFns : fns[k] = callerFns[k]
  /\ (pc = "done" /\ input = PiName) => result = PiRead
  /\ (pc = "done" /\ input = AbsName \o <<"(", "3", ")">>)
       => /\ result = IntOf(3)
          /\ rd.reached = <<<<AbsName, <<<<"3">>>>>>>>

C14_NoStructuralTokenInQueue ==
  /\ \A i \in 1..Len(rd.q) : isNumber(rd.q[i]) \/ isOperator(rd.q[i])
  /\ \A i \in 1..Len(rd.opStack) :
       isOperator(rd.opStack[i]) \/ rd.opStack[i] = <<"(">>

\* Reading (2+2: "(" and "+" are on the operator stack, 2 is in the queue.
C14_Witness ==
  /\ pc = "read"
  /\ input = <<"(", "2", "+", "2", ")">>
  /\ rd.opStack = <<<<"(">>, <<"+">>>>
  /\ rd.q = <<<<"2">>>>


-----------------------------------------------------------------------------
(***************************************************************************)
(* The end of queue.                                                       *)
(***************************************************************************)
\* C15: whenever eval fails with the too-many-values error, queue ended with
\* more than one value on its value stack (never with none).
C15_TooManyValsMeansSeveral ==
  (pc = "done" /\ result = EVAL_INPUT_TOO_MANY_VALS) => Len(ev.valStack) > 1


-----------------------------------------------------------------------------
(***************************************************************************)
(* Multi-character tokens.                                                 *)
(***************************************************************************)
\* Strings of up to MaxLen digits, dots and letters.
InitTok ==
  InitWith(Inputs({<<"2">>, <<"3">>, <<".">>, <<"a">>, <<"b">>}, MaxLen),
           {NoTable}, {NoTable})

SpecTok == InitTok /\ [][Next]_vars_

\* c is a digit, a '.' or a letter that cannot extend the token under
\* construction: the token is not empty and validates() is false.
CannotExtend(t, c) ==
  /\ t.wip # <<>>
  /\ \/ isdigit(c) /\ ~isNumber(t.wip)
     \/ c = "." /\ ~(isNumber(t.wip) /\ ~t.hasDecimal)
     \/ isalpha(c) /\ ~containsLettersOnly(t.wip)

\* C16: the step of the tokenizer at a digit, '.' or letter that cannot
\* extend the token under construction appends that token to the tokens and
\* leaves the character as the new token under construction.
C16_RejectedCharStartsToken ==
  [][(pc = "tokenize" /\ exp # <<>> /\ CannotExtend(tk, Head(exp)))
       => /\ tk'.toks = Append(tk.toks, tk.wip)
          /\ tk'.wip = <<Head(exp)>>]_vars_


-----------------------------------------------------------------------------
(***************************************************************************)
(* The synthesized "0".                                                    *)
(***************************************************************************)
\* The step from t to u has pushed a "0" the input does not hold: two tokens
\* more with no token under construction to finish.
SynthesizedZero(t, u) == t.wip = <<>> /\ Len(u.toks) = Len(t.toks) + 2

\* C17: every step of the tokenizer that synthesizes a "0" pushes it
\* directly before a + or - token, and either as the first token or directly
\* after a "(" token.
C17_ZeroOnlyForLeadingSign ==
  [][(pc = "tokenize" /\ SynthesizedZero(tk, tk'))
       => /\ tk'.toks[Len(tk.toks) + 1] = <<"0">>
          /\ tk'.toks[Len(tk.toks) + 2] \in {<<"+">>, <<"-">>}
          /\ tk.toks = <<>> \/ Top(tk.toks) = <<"(">>]_vars_


-----------------------------------------------------------------------------
(***************************************************************************)
(* The "(" of a call and the "(" of a group.                               *)
(***************************************************************************)
\* The token read before the one read next (tk.toks keeps all the tokens of
\* the expression, tokens those still to be read); <<>> before the first.
PreviousToken ==
  IF Len(tk.toks) - Len(tokens) >= 1 THEN tk.toks[Len(tk.toks) - Len(tokens)]
  ELSE <<>>

\* C18: a step of read at a "(" enters the expecting-argument state, with
\* the operator stack left alone, only if the token directly before the "("
\* is a function identifier; at any other "(" the step pushes the "(" on the
\* operator stack.
C18_CallParenDirectlyAfterName ==
  [][(pc = "read" /\ tokens # <<>> /\ Head(tokens) = <<"(">>)
       => /\ (rd'.expectingArg /\ rd'.opStack = rd.opStack)
               => PreviousToken \in DOMAIN fns
          /\ PreviousToken \notin DOMAIN fns
               => rd'.opStack = Append(rd.opStack, <<"(">>)]_vars_


-----------------------------------------------------------------------------
(***************************************************************************)
(* The rewriter.                                                           *)
(***************************************************************************)
\* Runs of signs of every length up to MaxLen, before, between and after 2s.
InitRuns ==
  InitWith(Inputs({<<"+">>, <<"-">>, <<"2">>}, MaxLen), {NoTable}, {NoTable})

SpecRuns == InitRuns /\ [][Next]_vars_

\* One scan of s from position pos on: the first occurrence of the two
\* characters of search at or after pos is replaced by r, and the scan goes
\* on behind the replacement.
RECURSIVE ScanOnce(_, _, _, _)
ScanOnce(s, pos, search, r) ==
  LET found == {i \in pos..(Len(s) - 1) : <<s[i], s[i + 1]>> = search}
  IN  IF found = {} THEN s
      ELSE LET i == CHOOSE j \in found : \A k \in found : j <= k
           IN  ScanOnce(SubSeq(s, 1, i - 1) \o r \o SubSeq(s, i + 2, Len(s)),
                        i + Len(r), search, r)

\* The four scans, once each, in the order +- -+ ++ --.
FourScans(s) ==
  ScanOnce(ScanOnce(ScanOnce(ScanOnce(s,
    1, <<"+", "-">>, <<"-">>),
    1, <<"-", "+">>, <<"-">>),
    1, <<"+", "+">>, <<"+">>),
    1, <<"-", "-">>, <<"+">>)

AdjacentSigns(s) ==
  \E i \in 1..(Len(s) - 1) : s[i] \in SignChars /\ s[i + 1] \in SignChars

\* eval has rewritten its input and tokenize has not begun.
Rewritten == pc = "tokenize" /\ Len(exp) = Len(rewriteExpression(removeSpaces(input)))

\* C19: the expression handed to the tokenizer is the input after the four
\* scans, once each and in that order, whether or not two signs are still
\* adjacent in it.
C19_FourScansOnceEach ==
  Rewritten => exp = FourScans(removeSpaces(input))

\* ++-2 has been rewritten to +-2, which still holds two adjacent signs.
C19_Witness ==
  /\ Rewritten
  /\ input = <<"+", "+", "-", "2">>
  /\ exp = <<"+", "-", "2">>
  /\ AdjacentSigns(exp)


-----------------------------------------------------------------------------
(***************************************************************************)
(* The errors of queue.                                                    *)
(***************************************************************************)
\* C20: eval never fails with the unknown-operator error.
C20_UnknownOperatorUnreachable == pc = "done" => result # EVAL_UNREC_OP


-----------------------------------------------------------------------------
(***************************************************************************)
(* Pending invocations.                                                    *)
(***************************************************************************)
\* Stands for the arguments of a function identifier written without a "(".
NotCalled == <<"never">>

\* The number of tokens of toks before its first ")" (all, if it has none).
RECURSIVE UpToClose(_)
UpToClose(toks) ==
  IF toks = <<>> \/ Head(toks) = <<")">> THEN 0 ELSE 1 + UpToClose(Tail(toks))

\* The calls written in toks, in order: each function identifier with the
\* tokens written between its "(" and the next ")", the separators left
\* out and a variable given as its value's text.
RECURSIVE WrittenCalls(_, _, _)
WrittenCalls(toks, vs, fs) ==
  IF toks = <<>> THEN <<>>
  ELSE IF Head(toks) \notin DOMAIN fs THEN WrittenCalls(Tail(toks), vs, fs)
  ELSE IF Len(toks) < 2 \/ toks[2] # <<"(">>
    THEN <<<<Head(toks), NotCalled>>>> \o WrittenCalls(Tail(toks), vs, fs)
  ELSE LET rest   == Drop(toks, 2)
           n      == UpToClose(rest)
           inside == SelectSeq(Take(rest, n), LAMBDA t : t # <<",">>)
           args   == [i \in 1..Len(inside) |->
                        IF inside[i] \in DOMAIN vs THEN toToken(vs[inside[i]])
                        ELSE inside[i]]
       IN  <<<<Head(toks), args>>>> \o WrittenCalls(Drop(rest, n + 1), vs, fs)

\* C21: when eval has returned a number, read ended with no function to
\* invoke and no argument stored, and the invocations it made are the calls
\* written in the tokens, one for each function identifier, each with the
\* arguments written in its parentheses.
C21_NoInvocationLeftPending ==
  (pc = "done" /\ IsNumberValue(result))
    => /\ rd.fnToInvoke = <<>>
       /\ rd.fnArgs = <<>>
       /\ rd.calls = WrittenCalls(tk.toks, vars, fns)

=============================================================================
